---- MODULE Spec2Model ----
(***************************************************************************)
(* Network event correlation and bounded capture log of webagent           *)
(* (webagent/network.py): NetworkMonitor correlates request-started and    *)
(* response-received events through its _pending dict and hands completed  *)
(* NetworkRequest objects to NetworkLog._add_request, which either keeps   *)
(* the last _max_memory_requests of them in memory or streams them to a    *)
(* file.                                                                   *)
(***************************************************************************)
EXTENDS Integers, Sequences, FiniteSets, TLC

(* ------------------------------ bounds -------------------------------- *)

\* Request-started events delivered in one run.
MaxStarted == 3

\* Largest argument given to set_max_memory (arguments are 0..MaxCap).
MaxCap == 2

\* stream_to_file calls in one run.
MaxOpens == 1

\* stream_to_file calls on one NetworkLog driven through its own interface.
MaxSinkOpens == 2

\* URLs and HTTP status codes the transport delivers.
Urls == {"http://x/a", "http://x/b"}

Statuses == {200}

(* ------------------------- program constants -------------------------- *)

\* NetworkLog._max_memory_requests default.
DefaultMaxMemory == 100

\* Byte lengths of the delimiters stream_to_file, _add_request and close write,
\* and the file size above which stream_to_file(append=True) writes ',\n'.
HeaderBytes == 15

SeparatorBytes == 2

FooterBytes == 3

CommaThreshold == 10

\* A serialized record is a JSON object with ten keys: always far more than
\* CommaThreshold bytes (the keys alone are over 100 bytes).
MinRecordBytes == 100

(* ------------------------------ state --------------------------------- *)

VARIABLES
    request_id,     \* NetworkMonitor._request_id
    pending,        \* NetworkMonitor._pending: dict in insertion order, as a sequence of requests
    requests,       \* NetworkLog.requests
    stream_flag,    \* NetworkLog._stream_to_file
    file_handle,    \* NetworkLog._file_handle: TRUE = an open handle, FALSE = None
    max_memory,     \* NetworkLog._max_memory_requests
    file,           \* content of the streaming destination, as a sequence of tokens
    opens,          \* number of stream_to_file calls so far
    nStarted,       \* history: number of request-started events handled so far
    maxId,          \* history: largest identifier assigned so far, NoId if none
    epochMaxId,     \* history: largest identifier assigned since construction / clear(), NoId if none
    started,        \* history: start number and url of the requests started since construction / clear()
    completed,      \* history: start numbers of the requests correlated since construction / clear()
    appended,       \* history: exchanges kept in memory by _add_request on the current log, in order
    streamed,       \* history: exchanges _add_request wrote to the file, in order
    fixedCap,       \* history: the capacity of the current log was set while it was still empty
    last,           \* history: the last event handled and its outcome
    unclosed,       \* file handles opened by stream_to_file that lost their last reference without close()
    capture,        \* one response body on its way through response_handler and the log
    handlers,       \* the event handlers that run at the same time, each at its line
    writer,         \* an _add_request call that runs while the list is read, at its line
    reader,         \* a read of NetworkLog.requests that runs while an exchange is added
    summary,        \* the last value get_summary() returned
    now,            \* the clock time.time() reads, in seconds
    hooks,          \* NetworkMonitor._on_request / _on_response: TRUE = a callback is set
    calls,          \* history: the callback invocations, each with what the callback found
    aborted,        \* history: start numbers of the requests the browser reported as failed
    result          \* the last value a read of the log returned

vars == <<request_id, pending, requests, stream_flag, file_handle, max_memory,
          file, opens, nStarted, maxId, epochMaxId, started, completed, appended,
          streamed, fixedCap, last, unclosed, capture, handlers, writer, reader,
          summary, now, hooks, calls, aborted, result>>

monitorVars == <<request_id, pending, nStarted, maxId, epochMaxId, started, completed>>

logVars == <<requests, stream_flag, file_handle, max_memory, appended, fixedCap>>

\* What the correlator's events leave alone: followed by the specifications
\* of the sink's own interface.
eventVars == <<now, hooks, calls, aborted, result>>

auxVars == <<unclosed, capture, handlers, writer, reader, summary, eventVars>>

\* What the sink's own interface leaves alone as well.
idleVars == <<capture, handlers, writer, reader, summary, eventVars>>

(* ---------------------------- data model ------------------------------ *)

\* response_status of a request that has no response yet (None).
NoStatus == 0

\* No identifier (before the first one is assigned).
NoId == -1

\* NetworkRequest(id, url, ...): seq is the start number of the request
\* (1 for the first request-started event of the run, 2 for the second...).
NetworkRequest(id, url, seq) ==
    [id |-> id, url |-> url, seq |-> seq, status |-> NoStatus]

NoRequest == [id |-> NoId, url |-> "", seq |-> 0, status |-> NoStatus]

Token(t, x) == [t |-> t, x |-> x]

Header == Token("header", NoRequest)

Separator == Token("comma", NoRequest)

Footer == Token("footer", NoRequest)

\* json.dumps({...}) followed by ',\n': one record of the destination.
Record(req) == Token("record", req)

RECURSIVE FileSize(_)
FileSize(f) ==
    IF f = <<>> THEN 0
    ELSE (CASE Head(f).t = "header" -> HeaderBytes
            [] Head(f).t = "comma"  -> SeparatorBytes
            [] Head(f).t = "footer" -> FooterBytes
            [] OTHER                -> MinRecordBytes) + FileSize(Tail(f))

\* The exchanges of the records of a file, in file order.
RECURSIVE Records(_)
Records(f) ==
    IF f = <<>> THEN <<>>
    ELSE IF Head(f).t = "record" THEN <<Head(f).x>> \o Records(Tail(f))
    ELSE Records(Tail(f))

Seqs(s) == [i \in 1..Len(s) |-> s[i].seq]

Range(s) == {s[i] : i \in 1..Len(s)}

Max(a, b) == IF a > b THEN a ELSE b

(* ------------------------- NetworkLog (sink) -------------------------- *)

\* _add_request, in-memory branch: append, then pop(0) if over the limit.
MemAppend_popLast(reqs, limit, req) ==
    LET r == Append(reqs, req)
    IN  IF Len(r) > limit THEN SubSeq(r, 1, Len(r) - 1) ELSE r

MemAppend(reqs, limit, req) ==
    LET r == Append(reqs, req)
    IN  IF Len(r) > limit THEN Tail(r) ELSE r

\* Python's reqs[-n:] for n >= 0: the last n elements, but the whole list
\* for n = 0 (-0 is 0, and reqs[0:] is everything).
SliceLast(reqs, n) ==
    IF n = 0 THEN reqs
    ELSE SubSeq(reqs, (IF Len(reqs) > n THEN Len(reqs) - n + 1 ELSE 1), Len(reqs))

\* set_max_memory: the retained list after the call.
SetMaxRetained_reset(reqs, n) ==
    LET kept == IF Len(reqs) > n THEN SliceLast(reqs, n) ELSE reqs
    IN  [i \in 1..Len(kept) |-> [kept[i] EXCEPT !.status = NoStatus]]

SetMaxRetained(reqs, n) ==
    IF Len(reqs) > n THEN SliceLast(reqs, n) ELSE reqs

\* _add_request, streaming branch: the record and its ',\n' go to the end of the file.
StreamWrite_twice(f, req) == f \o <<Record(req), Record(req)>>

StreamWrite(f, req) == f \o <<Record(req)>>

\* stream_to_file: what open(path, mode) and the header logic leave in the file.
OpenFile(f, append) ==
    IF ~append THEN <<Header>>
    ELSE IF FileSize(f) > CommaThreshold THEN f \o <<Separator>>
    ELSE f

\* The test of _add_request: self._stream_to_file and self._file_handle.
Streaming_flagOnly == stream_flag

Streaming_never == FALSE

Streaming == stream_flag /\ file_handle

\* close(): the file after the call, for handle = "self._file_handle is not None".
CloseFile_always(f, handle) == f \o <<Footer>>

CloseFile(f, handle) == IF handle THEN f \o <<Footer>> ELSE f

\* self._file_handle = open(...): the unreferenced open handles after the
\* assignment, for handle = "self._file_handle was not None".
Dropped(n, handle) == IF handle THEN n + 1 ELSE n

(* ---------------------- NetworkMonitor (correlator) ------------------- *)

NextId_same(n) == n

NextId(n) == n + 1

\* self._pending[req_id] = network_req on an insertion-ordered dict.
DictSet_front(p, req) == IF p = <<>> THEN <<req>> ELSE <<req>> \o Tail(p)

DictSet(p, req) ==
    IF \E i \in 1..Len(p) : p[i].id = req.id
    THEN [i \in 1..Len(p) |-> IF p[i].id = req.id THEN req ELSE p[i]]
    ELSE Append(p, req)

\* The loop over self._pending.items(): the index of the first pending
\* request whose url equals the response's url, 0 for req_id = None.
FindMatch_last(p, url) ==
    IF \E i \in 1..Len(p) : p[i].url = url
    THEN CHOOSE i \in 1..Len(p) :
            /\ p[i].url = url
            /\ \A j \in (i + 1)..Len(p) : p[j].url # url
    ELSE 0

FindMatch_any(p, url) == IF p = <<>> THEN 0 ELSE 1

RECURSIVE FindFrom(_, _, _)
FindFrom(p, url, i) ==
    IF i > Len(p) THEN 0
    ELSE IF p[i].url = url THEN i
    ELSE FindFrom(p, url, i + 1)

FindMatch(p, url) == FindFrom(p, url, 1)

\* self._pending.pop(req_id)
DictPop_keep(p, i) == p

DictPop(p, i) == [j \in 1..(Len(p) - 1) |-> IF j < i THEN p[j] ELSE p[j + 1]]

\* req.response_status = response.status
Complete_noStatus(req, status) == req

Complete(req, status) == [req EXCEPT !.status = status]

(* ------------------------------ events -------------------------------- *)

\* A response event: its url and status, the start number of the request it
\* completed (0 for none), whether the handler raised, and whether it repeats
\* the url of a response that the event just before it correlated.
Response(url, status, seq, raised, again) ==
    [op |-> "response", url |-> url, status |-> status, seq |-> seq,
     raised |-> raised, again |-> again]

\* Any other event.
Other ==
    [op |-> "other", url |-> "", status |-> NoStatus, seq |-> 0,
     raised |-> FALSE, again |-> FALSE]

Again(url) == last.op = "response" /\ last.seq # 0 /\ last.url = url

\* response_body of a request whose body was not recorded (None).
NoBody == -1

\* No response body is on its way: stage names where the body is, bytes
\* and kind describe what response.body() returns, raises whether it raises,
\* body is req.response_body as a number of characters, keys and written are
\* the keys of the JSON object written for the exchange and the number of
\* characters of its "response_body".
NoCapture ==
    [stage |-> "none", bytes |-> 0, kind |-> "ascii", raises |-> FALSE,
     body |-> NoBody, keys |-> {}, written |-> NoBody]

\* The threads that deliver events at the same time.
Threads == {1, 2}

\* A thread that runs no handler: pc is the line the handler is at, url and
\* seq the event it handles, id and tmp its local values of the counter,
\* cursor and size the position and the expected size of its iteration over
\* the pending table.
IdleHandler ==
    [pc |-> "idle", url |-> "", seq |-> 0, id |-> NoId, tmp |-> 0, cursor |-> 0,
     size |-> 0]

\* No _add_request call is running: before is the retained list when the
\* call began.
IdleWriter == [pc |-> "idle", req |-> NoRequest, before |-> <<>>]

\* No read is running: seen is what the iteration has yielded so far, snaps
\* the values the retained list had between two _add_request calls while
\* the read ran.
IdleReader == [pc |-> "idle", cursor |-> 0, seen |-> <<>>, snaps |-> {}]

\* get_summary() was not called yet.
NoSummary ==
    [computed |-> FALSE, total_requests |-> 0, api_calls |-> 0, post_requests |-> 0,
     endpoints |-> {}, unique_domains |-> {}]

\* self._on_request = None, self._on_response = None
NoHooks == [on_request |-> FALSE, on_response |-> FALSE]

\* No read of the log was made yet: op names the method, arg its argument,
\* value the list it returned.
NoResult == [op |-> "none", arg |-> <<>>, value |-> <<>>]

\* NetworkMonitor() and its NetworkLog(), as constructed.
Constructed ==
    /\ request_id = 0
    /\ pending = <<>>
    /\ requests = <<>>
    /\ stream_flag = FALSE
    /\ file_handle = FALSE
    /\ max_memory = DefaultMaxMemory
    /\ file = <<>>
    /\ opens = 0
    /\ nStarted = 0
    /\ maxId = NoId
    /\ epochMaxId = NoId
    /\ started = {}
    /\ completed = {}
    /\ appended = <<>>
    /\ streamed = <<>>
    /\ fixedCap = TRUE
    /\ last = Other
    /\ unclosed = 0

\* Nothing runs beside the caller's own thread, and nothing was computed yet.
\* The clock at its origin, no callback set, nothing aborted, nothing read.
Unobserved ==
    /\ now = 0
    /\ hooks = NoHooks
    /\ calls = <<>>
    /\ aborted = {}
    /\ result = NoResult

Quiet ==
    /\ capture = NoCapture
    /\ handlers = [t \in Threads |-> IdleHandler]
    /\ writer = IdleWriter
    /\ reader = IdleReader
    /\ summary = NoSummary
    /\ Unobserved

Init == Constructed /\ Quiet

\* The body shared by handler().handle and request_handler().handle.
Start(url) ==
    /\ nStarted < MaxStarted
    /\ LET seq == nStarted + 1
           req == NetworkRequest(request_id, url, seq)
       IN  /\ request_id' = NextId(request_id)
           /\ pending' = DictSet(pending, req)
           /\ nStarted' = seq
           /\ maxId' = Max(maxId, request_id)
           /\ epochMaxId' = Max(epochMaxId, request_id)
           /\ started' = started \cup {[seq |-> seq, url |-> url]}
           /\ last' = Other
    /\ UNCHANGED <<completed, file, opens, streamed>>
    /\ UNCHANGED logVars
    /\ UNCHANGED auxVars

\* NetworkMonitor.request_handler().handle
RequestStarted(url) == Start(url)

\* NetworkMonitor.handler().handle
RouteStarted(url) == Start(url)

\* NetworkMonitor.response_handler().handle; writeOk = FALSE: the file
\* write of _add_request raises (disk full, ...).
ResponseReceived(url, status, writeOk) ==
    LET i == FindMatch(pending, url)
    IN  IF i = 0
        THEN /\ writeOk
             /\ last' = Response(url, status, 0, FALSE, Again(url))
             /\ UNCHANGED <<monitorVars, logVars, file, opens, streamed, auxVars>>
        ELSE LET req == Complete(pending[i], status)
             IN  /\ pending' = DictPop(pending, i)
                 /\ completed' = completed \cup {req.seq}
                 /\ UNCHANGED <<request_id, nStarted, maxId, epochMaxId, started, opens,
                                stream_flag, file_handle, max_memory, fixedCap, auxVars>>
                 /\ IF Streaming
                    THEN /\ file' = (IF writeOk THEN StreamWrite(file, req) ELSE file)
                         /\ streamed' = (IF writeOk THEN Append(streamed, req) ELSE streamed)
                         /\ last' = Response(url, status, req.seq, ~writeOk, Again(url))
                         /\ UNCHANGED <<requests, appended>>
                    ELSE /\ writeOk
                         /\ requests' = MemAppend(requests, max_memory, req)
                         /\ appended' = Append(appended, req)
                         /\ last' = Response(url, status, req.seq, FALSE, Again(url))
                         /\ UNCHANGED <<file, streamed>>

\* NetworkLog.set_max_memory
SetMaxMemory(n) ==
    /\ max_memory' = n
    /\ requests' = SetMaxRetained(requests, n)
    /\ fixedCap' = (fixedCap /\ appended = <<>>)
    /\ last' = Other
    /\ UNCHANGED <<monitorVars, stream_flag, file_handle, appended, file, opens, streamed,
                   auxVars>>

\* NetworkLog.stream_to_file
StreamToFile(append) ==
    /\ opens < MaxOpens
    /\ opens' = opens + 1
    /\ file_handle' = TRUE
    /\ stream_flag' = TRUE
    /\ file' = OpenFile(file, append)
    /\ last' = Other
    /\ UNCHANGED <<monitorVars, requests, max_memory, appended, fixedCap, streamed,
                   auxVars>>

\* NetworkLog.close
Close ==
    /\ file' = CloseFile(file, file_handle)
    /\ file_handle' = FALSE
    /\ last' = Other
    /\ UNCHANGED <<monitorVars, requests, stream_flag, max_memory, appended,
                   fixedCap, opens, streamed, auxVars>>

\* NetworkMonitor.clear
Clear ==
    /\ requests' = <<>>
    /\ stream_flag' = FALSE
    /\ file_handle' = FALSE
    /\ max_memory' = DefaultMaxMemory
    /\ pending' = <<>>
    /\ request_id' = 0
    /\ epochMaxId' = NoId
    /\ started' = {}
    /\ completed' = {}
    /\ appended' = <<>>
    /\ fixedCap' = TRUE
    /\ last' = Other
    /\ UNCHANGED <<file, opens, streamed, nStarted, maxId, auxVars>>

Next ==
    \/ \E u \in Urls : RequestStarted(u)
    \/ \E u \in Urls : RouteStarted(u)
    \/ \E u \in Urls, s \in Statuses, ok \in BOOLEAN : ResponseReceived(u, s, ok)
    \/ \E n \in 0..MaxCap : SetMaxMemory(n)
    \/ \E a \in BOOLEAN : StreamToFile(a)
    \/ Close
    \/ Clear

Spec == Init /\ [][Next]_vars

\* Events are delivered for as long as the transport produces them; nothing
\* makes the transport answer a given request.
FairSpec == Spec /\ WF_vars(Next)

(* --------------- NetworkLog driven through its own interface ----------- *)

\* An event of the sink: op names the method called, seq the start number of
\* the exchange added (0 for the other methods), again whether a close()
\* directly follows a close().
SinkEvent(op, seq, raised) ==
    [op |-> op, url |-> "", status |-> NoStatus, seq |-> seq,
     raised |-> raised, again |-> (op = "close" /\ last.op = "close")]

monitorIdle == <<request_id, pending, maxId, epochMaxId, started, completed>>

\* NetworkLog._add_request(req), called with a completed exchange.
SinkAdd(url, status, writeOk) ==
    /\ nStarted < MaxStarted
    /\ LET seq == nStarted + 1
           req == Complete(NetworkRequest(seq - 1, url, seq), status)
       IN  /\ nStarted' = seq
           /\ IF Streaming
              THEN /\ file' = (IF writeOk THEN StreamWrite(file, req) ELSE file)
                   /\ streamed' = (IF writeOk THEN Append(streamed, req) ELSE streamed)
                   /\ last' = SinkEvent("add", seq, ~writeOk)
                   /\ UNCHANGED <<requests, appended>>
              ELSE /\ writeOk
                   /\ requests' = MemAppend(requests, max_memory, req)
                   /\ appended' = Append(appended, req)
                   /\ last' = SinkEvent("add", seq, FALSE)
                   /\ UNCHANGED <<file, streamed>>
    /\ UNCHANGED <<monitorIdle, stream_flag, file_handle, max_memory, fixedCap, opens,
                   unclosed, idleVars>>

\* NetworkLog.set_max_memory(n)
SinkSetMax(n) ==
    /\ max_memory' = n
    /\ requests' = SetMaxRetained(requests, n)
    /\ fixedCap' = (fixedCap /\ appended = <<>>)
    /\ last' = SinkEvent("set_max_memory", 0, FALSE)
    /\ UNCHANGED <<monitorIdle, nStarted, stream_flag, file_handle, appended, file, opens,
                   streamed, unclosed, idleVars>>

\* NetworkLog.stream_to_file(path, append): the handle that was in
\* self._file_handle, if any, loses its only reference without being closed.
SinkStream(append) ==
    /\ opens < MaxSinkOpens
    /\ opens' = opens + 1
    /\ unclosed' = Dropped(unclosed, file_handle)
    /\ file_handle' = TRUE
    /\ stream_flag' = TRUE
    /\ file' = OpenFile(file, append)
    /\ last' = SinkEvent("stream_to_file", 0, FALSE)
    /\ UNCHANGED <<monitorIdle, nStarted, requests, max_memory, appended, fixedCap,
                   streamed, idleVars>>

\* NetworkLog.close()
SinkClose ==
    /\ file' = CloseFile(file, file_handle)
    /\ file_handle' = FALSE
    /\ last' = SinkEvent("close", 0, FALSE)
    /\ UNCHANGED <<monitorIdle, nStarted, requests, stream_flag, max_memory, appended,
                   fixedCap, opens, streamed, unclosed, idleVars>>

\* NetworkLog.export_json(path): close(), then the retained list is dumped
\* to another file.
SinkExport ==
    /\ file' = CloseFile(file, file_handle)
    /\ file_handle' = FALSE
    /\ last' = SinkEvent("export_json", 0, FALSE)
    /\ UNCHANGED <<monitorIdle, nStarted, requests, stream_flag, max_memory, appended,
                   fixedCap, opens, streamed, unclosed, idleVars>>

\* The runtime finalizes the file objects nothing refers to any more; when
\* it does so is up to the interpreter.
Finalize ==
    /\ unclosed > 0
    /\ unclosed' = 0
    /\ UNCHANGED <<monitorIdle, nStarted, requests, stream_flag, file_handle, max_memory,
                   appended, fixedCap, file, opens, streamed, last, idleVars>>

SinkNext ==
    \/ \E u \in Urls, s \in Statuses, ok \in BOOLEAN : SinkAdd(u, s, ok)
    \/ \E n \in 0..MaxCap : SinkSetMax(n)
    \/ \E a \in BOOLEAN : SinkStream(a)
    \/ SinkClose
    \/ SinkExport
    \/ Finalize

SinkSpec == Init /\ [][SinkNext]_vars

(* ------------------- the body of a response, recorded ------------------ *)

\* len(body) < 100000 in response_handler: the bodies of that many bytes or
\* more are skipped.
BodyLimit == 100000

\* response_body[:1000] in _add_request.
StreamBodyChars == 1000

\* response_body[:5000] in export_json.
ExportBodyChars == 5000

\* The body sizes tried lie within Slack of a limit of the code.
Slack == 1

\* The limits, and the sizes whose hexadecimal text reaches a limit.
Limits == {StreamBodyChars, ExportBodyChars, BodyLimit}

BodySizes ==
    {0} \cup {c + d : c \in Limits, d \in (0 - Slack)..Slack}
        \cup {(c \div 2) + d : c \in Limits, d \in (0 - Slack)..Slack}

\* "ascii": bytes that decode as UTF-8 to as many characters; "binary":
\* bytes that are not valid UTF-8.
BodyKinds == {"ascii", "binary"}

\* body.decode("utf-8"), or body.hex() when that raises: the number of
\* characters of the text.
Decode(bytes, kind) == IF kind = "ascii" THEN bytes ELSE 2 * bytes

\* The try block of response_handler: req.response_body after it.
CaptureBody_keepLarge(bytes, kind, raises) ==
    IF raises THEN NoBody ELSE Decode(bytes, kind)

CaptureBody(bytes, kind, raises) ==
    IF raises THEN NoBody
    ELSE IF bytes < BodyLimit THEN Decode(bytes, kind) ELSE NoBody

\* s[:n], on the number of characters.
Slice(chars, n) == IF chars > n THEN n ELSE chars

\* req.response_body[:n] if req.response_body else None
Written(body, n) == IF body = NoBody \/ body = 0 THEN NoBody ELSE Slice(body, n)

\* The keys of the object _add_request writes to the file.
StreamKeys ==
    {"id", "url", "method", "headers", "post_data", "timestamp", "response_status",
     "response_body", "response_headers", "duration_ms"}

\* The keys of an element of "requests" in export_json.
ExportKeys ==
    {"id", "url", "method", "headers", "post_data", "response_status",
     "response_body", "response_headers", "duration_ms"}

\* A response arrives for a pending request.
BodyInit ==
    /\ Constructed
    /\ capture \in {[NoCapture EXCEPT !.stage = "response", !.bytes = b, !.kind = k,
                                      !.raises = r] :
                       b \in BodySizes, k \in BodyKinds, r \in BOOLEAN}
    /\ handlers = [t \in Threads |-> IdleHandler]
    /\ writer = IdleWriter
    /\ reader = IdleReader
    /\ summary = NoSummary
    /\ Unobserved

bodyIdle ==
    <<request_id, pending, requests, stream_flag, file_handle, max_memory, file, opens,
      nStarted, maxId, epochMaxId, started, completed, appended, streamed, fixedCap,
      last, unclosed, handlers, writer, reader, summary, eventVars>>

\* response_handler, "Try to get body".
BodyCapture ==
    /\ capture.stage = "response"
    /\ capture' = [capture EXCEPT
                      !.stage = "captured",
                      !.body = CaptureBody(capture.bytes, capture.kind, capture.raises)]
    /\ UNCHANGED bodyIdle

\* _add_request while streaming: the object written to the file.
BodyStream ==
    /\ capture.stage = "captured"
    /\ capture' = [capture EXCEPT
                      !.stage = "streamed",
                      !.keys = StreamKeys,
                      !.written = Written(capture.body, StreamBodyChars)]
    /\ UNCHANGED bodyIdle

\* _add_request otherwise: the request is kept in memory as it is.
BodyRetain ==
    /\ capture.stage = "captured"
    /\ capture' = [capture EXCEPT !.stage = "retained"]
    /\ UNCHANGED bodyIdle

\* export_json: the element written for a retained request.
BodyExport ==
    /\ capture.stage = "retained"
    /\ capture' = [capture EXCEPT
                      !.stage = "exported",
                      !.keys = ExportKeys,
                      !.written = Written(capture.body, ExportBodyChars)]
    /\ UNCHANGED bodyIdle

BodyNext == BodyCapture \/ BodyStream \/ BodyRetain \/ BodyExport

BodySpec == BodyInit /\ [][BodyNext]_vars

(* ------------- event handlers that run at the same time --------------- *)

\* req_id in self._pending: the position of the key, 0 if it is absent.
IndexOfId(p, id) ==
    IF \E i \in 1..Len(p) : p[i].id = id
    THEN CHOOSE i \in 1..Len(p) : p[i].id = id
    ELSE 0

raceIdle ==
    <<stream_flag, file_handle, max_memory, fixedCap, opens, last, unclosed, capture,
      writer, reader, summary, eventVars>>

\* A thread enters request_handler().handle for a request-started event.
ReqBegin(t, url) ==
    /\ handlers[t].pc = "idle"
    /\ nStarted < MaxStarted
    /\ nStarted' = nStarted + 1
    /\ started' = started \cup {[seq |-> nStarted + 1, url |-> url]}
    /\ handlers' = [handlers EXCEPT ![t] =
                       [IdleHandler EXCEPT !.pc = "242", !.url = url,
                                           !.seq = nStarted + 1]]
    /\ UNCHANGED <<request_id, pending, maxId, epochMaxId, completed, requests,
                   appended, file, streamed, raceIdle>>

\* req_id = f"req_{self._request_id}"
ReqReadId(t) ==
    /\ handlers[t].pc = "242"
    /\ handlers' = [handlers EXCEPT ![t].pc = "243", ![t].id = request_id]
    /\ UNCHANGED <<request_id, pending, nStarted, maxId, epochMaxId, started, completed,
                   requests, appended, file, streamed, raceIdle>>

\* self._request_id += 1, the load of the attribute
ReqLoad(t) ==
    /\ handlers[t].pc = "243"
    /\ handlers' = [handlers EXCEPT ![t].pc = "243 store", ![t].tmp = request_id]
    /\ UNCHANGED <<request_id, pending, nStarted, maxId, epochMaxId, started, completed,
                   requests, appended, file, streamed, raceIdle>>

\* self._request_id += 1, the store of the sum
ReqStore(t) ==
    /\ handlers[t].pc = "243 store"
    /\ request_id' = NextId(handlers[t].tmp)
    /\ handlers' = [handlers EXCEPT ![t].pc = "260"]
    /\ UNCHANGED <<pending, nStarted, maxId, epochMaxId, started, completed, requests,
                   appended, file, streamed, raceIdle>>

\* self._pending[req_id] = network_req, and the handler returns.
ReqInsert(t) ==
    /\ handlers[t].pc = "260"
    /\ pending' = DictSet(pending,
                          NetworkRequest(handlers[t].id, handlers[t].url, handlers[t].seq))
    /\ maxId' = Max(maxId, handlers[t].id)
    /\ epochMaxId' = Max(epochMaxId, handlers[t].id)
    /\ handlers' = [handlers EXCEPT ![t] = IdleHandler]
    /\ UNCHANGED <<request_id, nStarted, started, completed, requests, appended, file,
                   streamed, raceIdle>>

\* A thread enters response_handler().handle and starts the loop over
\* self._pending.items(); the iterator remembers the size of the dict.
RespBegin(t, url) ==
    /\ handlers[t].pc = "idle"
    /\ handlers' = [handlers EXCEPT ![t] =
                       [IdleHandler EXCEPT !.pc = "208", !.url = url, !.cursor = 1,
                                           !.size = Len(pending)]]
    /\ UNCHANGED <<request_id, pending, nStarted, maxId, epochMaxId, started, completed,
                   requests, appended, file, streamed, raceIdle>>

\* One step of the loop: the iterator raises RuntimeError when the dict
\* changed size since the loop began (the handler ends there); the loop ends
\* without a match; the item matches (break); or the loop goes on.
RespScan(t) ==
    /\ handlers[t].pc = "208"
    /\ LET h == handlers[t]
       IN  handlers' =
              IF Len(pending) # h.size THEN [handlers EXCEPT ![t] = IdleHandler]
              ELSE IF h.cursor > Len(pending) THEN [handlers EXCEPT ![t] = IdleHandler]
              ELSE IF pending[h.cursor].url = h.url
                   THEN [handlers EXCEPT ![t].pc = "213",
                                         ![t].id = pending[h.cursor].id]
              ELSE [handlers EXCEPT ![t].cursor = h.cursor + 1]
    /\ UNCHANGED <<request_id, pending, nStarted, maxId, epochMaxId, started, completed,
                   requests, appended, file, streamed, raceIdle>>

\* if req_id and req_id in self._pending: pop, complete, _add_request.
RespPop(t, status) ==
    /\ handlers[t].pc = "213"
    /\ handlers' = [handlers EXCEPT ![t] = IdleHandler]
    /\ LET i == IndexOfId(pending, handlers[t].id)
       IN  IF i = 0
           THEN UNCHANGED <<pending, completed, requests, appended, file, streamed>>
           ELSE LET req == Complete(pending[i], status)
                IN  /\ pending' = DictPop(pending, i)
                    /\ completed' = completed \cup {req.seq}
                    /\ IF Streaming
                       THEN /\ file' = StreamWrite(file, req)
                            /\ streamed' = Append(streamed, req)
                            /\ UNCHANGED <<requests, appended>>
                       ELSE /\ requests' = MemAppend(requests, max_memory, req)
                            /\ appended' = Append(appended, req)
                            /\ UNCHANGED <<file, streamed>>
    /\ UNCHANGED <<request_id, nStarted, maxId, epochMaxId, started, raceIdle>>

RaceNext ==
    \E t \in Threads :
        \/ \E u \in Urls : ReqBegin(t, u)
        \/ ReqReadId(t)
        \/ ReqLoad(t)
        \/ ReqStore(t)
        \/ ReqInsert(t)
        \/ \E u \in Urls : RespBegin(t, u)
        \/ RespScan(t)
        \/ \E s \in Statuses : RespPop(t, s)

RaceSpec == Init /\ [][RaceNext]_vars

(* ------------- the retained list read while it is appended to ---------- *)

\* if len(self.requests) > self._max_memory_requests: self.requests.pop(0)
Evict(reqs, limit) == IF Len(reqs) > limit THEN Tail(reqs) ELSE reqs

readIdle ==
    <<monitorIdle, stream_flag, file_handle, fixedCap, file, opens, streamed, last,
      unclosed, capture, handlers, summary, eventVars>>

\* set_max_memory(n), called before anything reads the list.
ReadSetMax(n) ==
    /\ writer.pc = "idle"
    /\ reader.pc = "idle"
    /\ SinkSetMax(n)

\* A thread enters _add_request with a completed exchange; the log is not
\* streaming, so the call goes on at line 91.  A read that is under way may
\* from now on also see the list as this call will leave it.
AddBegin(url, status) ==
    /\ writer.pc = "idle"
    /\ ~Streaming
    /\ nStarted < MaxStarted
    /\ LET seq == nStarted + 1
           req == Complete(NetworkRequest(seq - 1, url, seq), status)
       IN  /\ nStarted' = seq
           /\ writer' = [pc |-> "91", req |-> req, before |-> requests]
           /\ reader' = IF reader.pc = "iter"
                        THEN [reader EXCEPT !.snaps =
                                 @ \cup {MemAppend(requests, max_memory, req)}]
                        ELSE reader
    /\ UNCHANGED <<requests, appended, max_memory, readIdle>>

\* self.requests.append(req)
AddAppend ==
    /\ writer.pc = "91"
    /\ requests' = Append(requests, writer.req)
    /\ appended' = Append(appended, writer.req)
    /\ writer' = [writer EXCEPT !.pc = "92"]
    /\ UNCHANGED <<nStarted, reader, max_memory, readIdle>>

\* The test of line 92 and the pop(0) of line 94; the call returns.
AddEvict ==
    /\ writer.pc = "92"
    /\ requests' = Evict(requests, max_memory)
    /\ writer' = IdleWriter
    /\ UNCHANGED <<nStarted, reader, appended, max_memory, readIdle>>

\* Another thread starts to iterate over self.requests (get_by_url,
\* get_by_method, get_api_calls, the comprehensions of get_summary and
\* export_json).
ReadBegin ==
    /\ reader.pc \in {"idle", "done"}
    /\ reader' = [pc |-> "iter", cursor |-> 0, seen |-> <<>>,
                  snaps |-> IF writer.pc = "idle"
                            THEN {requests}
                            ELSE {writer.before,
                                  MemAppend(writer.before, max_memory, writer.req)}]
    /\ UNCHANGED <<nStarted, writer, requests, appended, max_memory, readIdle>>

\* One step of the list iterator: the element at its index, if the list
\* is that long now, else the iteration ends.
ReadNext ==
    /\ reader.pc = "iter"
    /\ reader' = IF reader.cursor < Len(requests)
                 THEN [reader EXCEPT !.cursor = @ + 1,
                                     !.seen = Append(@, requests[reader.cursor + 1])]
                 ELSE [reader EXCEPT !.pc = "done"]
    /\ UNCHANGED <<nStarted, writer, requests, appended, max_memory, readIdle>>

ReadRaceNext ==
    \/ \E n \in 1..MaxCap : ReadSetMax(n)
    \/ \E u \in Urls, s \in Statuses : AddBegin(u, s)
    \/ AddAppend
    \/ AddEvict
    \/ ReadBegin
    \/ ReadNext

ReadRaceSpec == Init /\ [][ReadRaceNext]_vars

(* ----------------------------- get_summary ----------------------------- *)

\* self.requests[:50] in get_summary.
SummaryCap == 50

\* The retained lists tried have up to MaxExtra requests, or between
\* SummaryCap - MaxExtra and SummaryCap + MaxExtra.
MaxExtra == 2

\* The methods of the requests, as the browser or a caller spells them.
MethodCycle == <<"GET", "POST", "PUT", "post">>

Methods == Range(MethodCycle)

\* str.upper() on a method
Upper(m) == IF m = "post" THEN "POST" ELSE m

\* A url: netloc h stands for the host "h<h>", path k for the path "/p<k>";
\* api tells whether url.lower() contains one of the api_patterns.
Url(h, k) == [netloc |-> h, path |-> k, api |-> (k % 3 = 0)]

\* urlparse(url).path
UrlPath(url) == url.path

\* urlparse(url).netloc
UrlNetloc(url) == url.netloc

\* NetworkRequest(id, url, method, ...), completed by a response
MethodRequest(seq, method, url) ==
    [id |-> seq - 1, url |-> url, seq |-> seq, status |-> 200, method |-> method]

\* get_by_method
GetByMethod_exact(reqs, method) == SelectSeq(reqs, LAMBDA r : r.method = method)

GetByMethod(reqs, method) ==
    SelectSeq(reqs, LAMBDA r : Upper(r.method) = Upper(method))

\* get_form_posts
GetFormPosts(reqs) == GetByMethod(reqs, "POST")

\* get_api_calls
GetApiCalls(reqs) == SelectSeq(reqs, LAMBDA r : r.url.api)

\* reqs[:n]
FirstN_all(reqs, n) == reqs

FirstN(reqs, n) == SubSeq(reqs, 1, IF Len(reqs) > n THEN n ELSE Len(reqs))

\* get_summary
GetSummary(reqs) ==
    [computed |-> TRUE,
     total_requests |-> Len(reqs),
     api_calls |-> Len(GetApiCalls(reqs)),
     post_requests |-> Len(GetFormPosts(reqs)),
     endpoints |-> {UrlPath(r.url) : r \in Range(FirstN(reqs, SummaryCap))},
     unique_domains |-> {UrlNetloc(r.url) : r \in Range(FirstN(reqs, SummaryCap))}]

SummaryLengths ==
    (0..MaxExtra) \cup ((SummaryCap - MaxExtra)..(SummaryCap + MaxExtra))

\* The method of the i-th request: one method for all (shift = 0), or the
\* methods in turn.
MethodAt(i, m, shift) ==
    IF shift = 0 THEN MethodCycle[m] ELSE MethodCycle[((i + m + shift) % 4) + 1]

\* Every request its own path or host, or two of them in turn.
NameAt(i, distinct) == IF distinct THEN i ELSE i % 2

\* The lists _add_request can have built, below the default max_memory.
RetainedLists ==
    {[i \in 1..n |-> MethodRequest(i, MethodAt(i, m, shift),
                                   Url(NameAt(i, dh), NameAt(i, dp)))] :
        n \in SummaryLengths, m \in 1..4, shift \in 0..1, dh \in BOOLEAN, dp \in BOOLEAN}

\* A log that has retained some requests.
SummaryInit ==
    /\ requests \in RetainedLists
    /\ appended = requests
    /\ nStarted = Len(requests)
    /\ request_id = 0
    /\ pending = <<>>
    /\ stream_flag = FALSE
    /\ file_handle = FALSE
    /\ max_memory = DefaultMaxMemory
    /\ file = <<>>
    /\ opens = 0
    /\ maxId = NoId
    /\ epochMaxId = NoId
    /\ started = {}
    /\ completed = {}
    /\ streamed = <<>>
    /\ fixedCap = TRUE
    /\ last = Other
    /\ unclosed = 0
    /\ Quiet

\* summary = log.get_summary()
Summarize ==
    /\ summary' = GetSummary(requests)
    /\ UNCHANGED <<monitorVars, logVars, file, opens, streamed, last, unclosed, capture,
                   handlers, writer, reader, eventVars>>

SummaryNext == Summarize

SummarySpec == SummaryInit /\ [][SummaryNext]_vars

(* ------------- the handlers with their clock and callbacks ------------- *)

\* The clock is read at most at MaxClock seconds.
MaxClock == 2

\* (time.time() - req.timestamp) * 1000
MsPerSecond == 1000

\* duration_ms of a request that has no response yet (None).
NoDuration == -1

\* The size of the response bodies of these handlers, in bytes.
SmallBody == 5

\* request.post_data_buffer: none, bytes that decode, bytes that do not.
PostKinds == {"none", "text", "undecodable"}

\* The try block around request.post_data_buffer.decode(): post_data after
\* it, "raise" if the exception left the handler.
PostData_unguarded(kind) ==
    IF kind = "text" THEN "text" ELSE IF kind = "undecodable" THEN "raise" ELSE "none"

PostData(kind) == IF kind = "text" THEN "text" ELSE "none"

\* (time.time() - req.timestamp) * 1000, at the time t
Duration_reversed(t, timestamp) == (timestamp - t) * MsPerSecond

Duration(t, timestamp) == (t - timestamp) * MsPerSecond

\* NetworkRequest(id, url, method, headers, post_data), with the timestamp
\* its default factory reads; received is the clock when the response
\* handler ran (history).
TimedRequest(id, url, seq, post_data, t) ==
    [id |-> id, url |-> url, seq |-> seq, status |-> NoStatus, post_data |-> post_data,
     timestamp |-> t, duration |-> NoDuration, body |-> NoBody, headers |-> FALSE,
     received |-> NoDuration]

\* The lines of response_handler that fill the request in.
Respond(req, status, body, t) ==
    [req EXCEPT !.status = status, !.headers = TRUE,
                !.duration = Duration(t, req.timestamp), !.body = body,
                !.received = t]

\* An event of these handlers: input is the kind of body it came with.
Event(op, url, seq, input, raised) ==
    [op |-> op, url |-> url, status |-> NoStatus, seq |-> seq, raised |-> raised,
     again |-> FALSE, input |-> input]

\* A callback invocation: the request it was given, and whether the
\* callback finds it in the pending table and in the log.
Call(cb, seq, p, reqs) ==
    [cb |-> cb, seq |-> seq, pending |-> \E i \in 1..Len(p) : p[i].seq = seq,
     sunk |-> \E i \in 1..Len(reqs) : reqs[i].seq = seq]

eventIdle ==
    <<stream_flag, file_handle, max_memory, fixedCap, file, opens, streamed, unclosed,
      capture, handlers, writer, reader, summary, result>>

\* Time passes.
Tick ==
    /\ now < MaxClock
    /\ now' = now + 1
    /\ UNCHANGED <<monitorVars, requests, appended, last, hooks, calls, aborted,
                   eventIdle>>

\* The lines handler().handle and request_handler().handle share, for a
\* request with the given post data; callback tells whether the handler goes
\* on to self._on_request.
Started(op, url, post, callback) ==
    /\ nStarted < MaxStarted
    /\ LET seq == nStarted + 1
           data == PostData(post)
           req == TimedRequest(request_id, url, seq, data, now)
       IN  /\ nStarted' = seq
           /\ started' = started \cup {[seq |-> seq, url |-> url]}
           /\ request_id' = NextId(request_id)
           /\ maxId' = Max(maxId, request_id)
           /\ epochMaxId' = Max(epochMaxId, request_id)
           /\ IF data = "raise"
              THEN /\ last' = Event(op, url, seq, post, TRUE)
                   /\ UNCHANGED <<pending, calls>>
              ELSE /\ pending' = DictSet(pending, req)
                   /\ last' = Event(op, url, seq, post, FALSE)
                   /\ calls' = IF callback /\ hooks.on_request
                               THEN Append(calls, Call("on_request", seq, pending', requests))
                               ELSE calls
    /\ UNCHANGED <<completed, requests, appended, now, hooks, aborted, eventIdle>>

\* NetworkMonitor.request_handler().handle
EvRequest(url, post) == Started("request", url, post, TRUE)

\* NetworkMonitor.handler().handle: it ends with route.continue_() and
\* never reads self._on_request.
EvRoute(url, post) == Started("route", url, post, FALSE)

\* NetworkMonitor.response_handler().handle, for a response whose body()
\* raises or returns SmallBody bytes of text.
EvResponse(url, status, raises) ==
    LET i == FindMatch(pending, url)
        input == IF raises THEN "raises" ELSE "text"
    IN  /\ IF i = 0
           THEN /\ last' = Event("response", url, 0, input, FALSE)
                /\ UNCHANGED <<pending, completed, requests, appended, calls>>
           ELSE LET body == CaptureBody(SmallBody, "ascii", raises)
                    req == Respond(pending[i], status, body, now)
                IN  /\ pending' = DictPop(pending, i)
                    /\ completed' = completed \cup {req.seq}
                    /\ requests' = MemAppend(requests, max_memory, req)
                    /\ appended' = Append(appended, req)
                    /\ last' = Event("response", url, req.seq, input, FALSE)
                    /\ calls' = IF hooks.on_response
                                THEN Append(calls, Call("on_response", req.seq, pending',
                                                        requests'))
                                ELSE calls
        /\ UNCHANGED <<request_id, nStarted, maxId, epochMaxId, started, now, hooks,
                       aborted, eventIdle>>

\* NetworkMonitor.on_request(callback)
OnRequest ==
    /\ ~hooks.on_request
    /\ hooks' = [hooks EXCEPT !.on_request = TRUE]
    /\ UNCHANGED <<monitorVars, requests, appended, last, now, calls, aborted, eventIdle>>

\* NetworkMonitor.on_response(callback)
OnResponse ==
    /\ ~hooks.on_response
    /\ hooks' = [hooks EXCEPT !.on_response = TRUE]
    /\ UNCHANGED <<monitorVars, requests, appended, last, now, calls, aborted, eventIdle>>

\* The browser reports that a pending request failed or was aborted:
\* capture_from_browser and enable_network_monitoring subscribe to "request"
\* and "response" only, so no code of the monitor runs.
RequestFailed(seq) ==
    /\ \E i \in 1..Len(pending) : pending[i].seq = seq
    /\ seq \notin aborted
    /\ aborted' = aborted \cup {seq}
    /\ last' = Event("requestfailed", "", seq, "none", FALSE)
    /\ UNCHANGED <<monitorVars, requests, appended, now, hooks, calls, eventIdle>>

\* The owner calls monitor.sweepStale(maxAge): NetworkMonitor defines no
\* such attribute, the call raises AttributeError.
SweepStale ==
    /\ pending # <<>>
    /\ last.op # "sweepStale"
    /\ last' = Event("sweepStale", "", 0, "none", TRUE)
    /\ UNCHANGED <<monitorVars, requests, appended, now, hooks, calls, aborted,
                   eventIdle>>

\* The handlers while time passes.
ClockNext ==
    \/ Tick
    \/ \E u \in Urls : EvRequest(u, "none")
    \/ \E u \in Urls, st \in Statuses : EvResponse(u, st, FALSE)

ClockSpec == Init /\ [][ClockNext]_vars

\* The handlers with bodies that can and bodies that cannot be captured.
CaptureNext ==
    \/ \E u \in Urls, p \in PostKinds : EvRequest(u, p)
    \/ \E u \in Urls, p \in PostKinds : EvRoute(u, p)
    \/ \E u \in Urls, st \in Statuses, r \in BOOLEAN : EvResponse(u, st, r)

CaptureSpec == Init /\ [][CaptureNext]_vars

\* The handlers and the callbacks the owner sets.
HookNext ==
    \/ \E u \in Urls : EvRequest(u, "none")
    \/ \E u \in Urls : EvRoute(u, "none")
    \/ \E u \in Urls, st \in Statuses : EvResponse(u, st, FALSE)
    \/ OnRequest
    \/ OnResponse

HookSpec == Init /\ [][HookNext]_vars

\* The handlers, the requests the browser gives up and the owner's sweep.
OwnerNext ==
    \/ \E u \in Urls : EvRequest(u, "none")
    \/ \E u \in Urls, st \in Statuses : EvResponse(u, st, FALSE)
    \/ \E k \in 1..MaxStarted : RequestFailed(k)
    \/ SweepStale

OwnerSpec == Init /\ [][OwnerNext]_vars

(* -------------------------- the reads of the log ----------------------- *)

\* Urls and patterns, as sequences of characters.
QueryUrls == {<<"a">>, <<"a", "b">>, <<"b", "a">>}

Patterns == {<<>>, <<"a">>, <<"b">>, <<"a", "b">>}

QueryMethods == {"GET", "POST", "post"}

\* pattern in url
Contains(url, pattern) ==
    \E k \in 0..(Len(url) - Len(pattern)) : SubSeq(url, k + 1, k + Len(pattern)) = pattern

\* get_by_url
GetByUrl_prefix(reqs, pattern) ==
    SelectSeq(reqs, LAMBDA r : /\ Len(pattern) <= Len(r.url)
                               /\ SubSeq(r.url, 1, Len(pattern)) = pattern)

GetByUrl(reqs, pattern) == SelectSeq(reqs, LAMBDA r : Contains(r.url, pattern))

queryIdle ==
    <<monitorIdle, stream_flag, file_handle, fixedCap, file, opens, streamed, unclosed,
      capture, handlers, writer, reader, summary, now, hooks, calls, aborted>>

\* NetworkLog._add_request(req) on a log that does not stream.
QueryAdd(url, method) ==
    /\ nStarted < MaxStarted
    /\ ~Streaming
    /\ LET seq == nStarted + 1
           req == MethodRequest(seq, method, url)
       IN  /\ nStarted' = seq
           /\ requests' = MemAppend(requests, max_memory, req)
           /\ appended' = Append(appended, req)
           /\ last' = SinkEvent("add", seq, FALSE)
    /\ UNCHANGED <<max_memory, result, queryIdle>>

\* NetworkLog.set_max_memory(n)
QuerySetMax(n) ==
    /\ max_memory' = n
    /\ requests' = SetMaxRetained(requests, n)
    /\ last' = SinkEvent("set_max_memory", 0, FALSE)
    /\ UNCHANGED <<nStarted, appended, result, queryIdle>>

\* result = log.get_by_url(pattern)
ByUrl(pattern) ==
    /\ result' = [op |-> "get_by_url", arg |-> pattern,
                  value |-> GetByUrl(requests, pattern)]
    /\ last' = SinkEvent("get_by_url", 0, FALSE)
    /\ UNCHANGED <<nStarted, requests, appended, max_memory, queryIdle>>

\* result = log.get_by_method(method)
ByMethod(method) ==
    /\ result' = [op |-> "get_by_method", arg |-> method,
                  value |-> GetByMethod(requests, method)]
    /\ last' = SinkEvent("get_by_method", 0, FALSE)
    /\ UNCHANGED <<nStarted, requests, appended, max_memory, queryIdle>>

QueryNext ==
    \/ \E u \in QueryUrls, m \in QueryMethods : QueryAdd(u, m)
    \/ \E n \in 1..MaxCap : QuerySetMax(n)
    \/ \E q \in Patterns : ByUrl(q)
    \/ \E m \in QueryMethods : ByMethod(m)

QuerySpec == Init /\ [][QueryNext]_vars

(* ------------------------------ claims -------------------------------- *)

PendingSeqs == {pending[i].seq : i \in 1..Len(pending)}

\* The requests for a url started and not completed by a response (since
\* construction or the last clear()).
Outstanding(url) == {r \in started : r.url = url /\ r.seq \notin completed}

NoPendingFor(url) == \A i \in 1..Len(pending) : pending[i].url # url

\* The exchanges for the request with start number k in a sequence of exchanges.
Occurrences(s, k) == {i \in 1..Len(s) : s[i].seq = k}

\* The last n elements of s (all of s when it has fewer).
LastN(s, n) == SubSeq(s, (IF Len(s) > n THEN Len(s) - n + 1 ELSE 1), Len(s))

IsSuffix(s, t) == Len(s) <= Len(t) /\ s = LastN(t, Len(s))

\* C1: the number of retained exchanges is at most the configured maximum,
\* in every state reachable by appends and set_max_memory(n), n >= 0.
C1_RetainedWithinMax == Len(requests) <= max_memory

\* C2 (P1, FIFO eviction): on a memory sink whose capacity N was set while it
\* was empty, after M > N appends e1..eM the retained list is exactly
\* e(M-N+1)..eM, in that order.
C2_FifoEviction ==
    (fixedCap /\ Len(appended) > max_memory) =>
        requests = SubSeq(appended, Len(appended) - max_memory + 1, Len(appended))

C2_Witness ==
    /\ fixedCap
    /\ max_memory = 2
    /\ Len(appended) = 3
    /\ Seqs(requests) = <<appended[2].seq, appended[3].seq>>

\* C3 (P2, correlation order): a response matched by url completes the oldest
\* pending request with that url: every request with the same url that is
\* still pending after it was started later than the one completed, and the
\* request completed has the url of the response.
C3_OldestFirst ==
    (last.op = "response" /\ last.seq # 0) =>
        /\ \A i \in 1..Len(pending) :
              pending[i].url = last.url => pending[i].seq > last.seq
        /\ \A x \in Range(appended) \cup Range(streamed) :
              x.seq = last.seq => x.url = last.url

\* Two responses in a row completed two requests for the same url, the
\* first-started one first.
C3_Witness ==
    /\ last.op = "response"
    /\ last.again
    /\ last.seq = 2
    /\ completed = {1, 2}
    /\ Seqs(appended) = <<1, 2>>
    /\ appended[1].url = appended[2].url

\* C4 (P3, no duplicate exchange): when a response for a url has been
\* correlated and no request for that url is pending any more, a second
\* response for the url is a correlation-miss: it completes no request and
\* leaves the pending table, the retained list and the file as they are.
C4_SecondResponseMisses ==
    [][(/\ last.op = "response"
        /\ last.seq # 0
        /\ Outstanding(last.url) = {}
        /\ last'.op = "response"
        /\ last'.url = last.url)
       => (/\ last'.seq = 0
           /\ ~last'.raised
           /\ pending' = pending
           /\ requests' = requests
           /\ file' = file
           /\ appended' = appended
           /\ streamed' = streamed)]_vars

C4_Witness ==
    /\ last.op = "response"
    /\ last.again
    /\ last.seq = 0
    /\ Cardinality(completed) = 1

\* C5 (Scenario B, correlation-miss): a response whose url is the url of no
\* pending request is discarded without raising; the pending table, the
\* retained list and the file are unchanged by it.
C5_MissChangesNothing ==
    [][(last'.op = "response" /\ NoPendingFor(last'.url))
       => (/\ last'.seq = 0
           /\ ~last'.raised
           /\ pending' = pending
           /\ requests' = requests
           /\ file' = file)]_vars

\* A response was missed while a request for another url was pending.
C5_Witness ==
    /\ last.op = "response"
    /\ last.seq = 0
    /\ ~last.again
    /\ pending # <<>>
    /\ NoPendingFor(last.url)

\* The exchanges the sink holds: the retained list, and the records of the file.
InSink(k) ==
    Cardinality(Occurrences(requests, k)) + Cardinality(Occurrences(Records(file), k))

\* C6 (Scenario A) as stated: after a request-started event for u and a
\* response for u with status s that completed it, the sink contains exactly
\* one exchange for that request, with status s, and the request is no
\* longer pending.
C6_ExactlyOneInSink ==
    (last.op = "response" /\ last.seq # 0 /\ ~last.raised) =>
        /\ last.seq \notin PendingSeqs
        /\ InSink(last.seq) = 1
        /\ \A x \in Range(requests) \cup Range(Records(file)) :
              x.seq = last.seq => x.status = last.status

\* C6 as amended: the request is no longer pending and its exchange was
\* handed to the sink exactly once, with status s; a memory sink of capacity
\* at least 1 then retains exactly one exchange for it (a sink of capacity 0
\* may retain none) and a streaming sink holds exactly one record for it.
C6_HandedOverOnce ==
    (last.op = "response" /\ last.seq # 0 /\ ~last.raised) =>
        /\ last.seq \notin PendingSeqs
        /\ Cardinality(Occurrences(appended \o streamed, last.seq)) = 1
        /\ \A x \in Range(appended) \cup Range(streamed) \cup Range(requests)
                    \cup Range(Records(file)) :
              x.seq = last.seq => (x.status = last.status /\ x.url = last.url)
        /\ IF Streaming
           THEN Cardinality(Occurrences(Records(file), last.seq)) = 1
           ELSE /\ max_memory >= 1 => Cardinality(Occurrences(requests, last.seq)) = 1
                /\ Cardinality(Occurrences(requests, last.seq)) <= 1

C6_Witness ==
    /\ last.op = "response"
    /\ last.seq # 0
    /\ last.status = 200
    /\ ~Streaming
    /\ max_memory >= 1
    /\ Len(requests) = 1
    /\ requests[1].seq = last.seq
    /\ requests[1].status = 200

\* C7 (PendingTable invariant): the pending table holds exactly the requests
\* started (since construction or the last clear()) that no response has
\* completed yet, and every identifier appears in it at most once.
C7_PendingExact ==
    /\ {[seq |-> pending[i].seq, url |-> pending[i].url] : i \in 1..Len(pending)}
          = {r \in started : r.seq \notin completed}
    /\ \A i, j \in 1..Len(pending) : pending[i].id = pending[j].id => i = j
    /\ Cardinality(PendingSeqs) = Len(pending)

C7_Witness ==
    /\ Len(pending) = 2
    /\ completed # {}
    /\ pending[1].url = pending[2].url

\* C8: every entry of the pending table is eventually removed.
C8_EventuallyRemoved ==
    \A k \in 1..MaxStarted : (k \in PendingSeqs) ~> (k \notin PendingSeqs)

\* C9 as stated: every request-started event is given an identifier larger
\* than every identifier given before it, clear() or not.
C9_NeverReused ==
    [][nStarted' = nStarted + 1 => (request_id > maxId /\ maxId' = request_id)]_vars

\* C9 as amended: every request-started event is given an identifier larger
\* than every identifier given since construction or the last clear();
\* clear() restarts the numbering at 0. Requests that are pending or retained
\* together therefore never share an identifier.
C9_FreshSinceClear ==
    [][nStarted' = nStarted + 1 =>
          /\ request_id > epochMaxId
          /\ epochMaxId' = request_id
          /\ request_id' > request_id
          /\ \A x \in Range(pending) \cup Range(requests) : x.id # request_id]_vars

\* Two identifiers were given after a clear() that followed an earlier request.
C9_Witness ==
    /\ epochMaxId = 1
    /\ nStarted = 3
    /\ Len(pending) = 2

\* C10: in streaming mode every exchange whose write returned is in the file
\* exactly once, at the end when it is written, and the records of the file
\* are in the order the exchanges were completed; the number of records is
\* not capped by the memory limit, and the retained list is not involved.
C10_StreamedOnceInOrder ==
    /\ IsSuffix(Records(file), streamed)
    /\ \A k \in 1..MaxStarted : Cardinality(Occurrences(Records(file), k)) <= 1
    /\ (last.op = "response" /\ last.seq # 0 /\ ~last.raised /\ Streaming) =>
          /\ file # <<>>
          /\ file[Len(file)].t = "record"
          /\ file[Len(file)].x.seq = last.seq
          /\ Occurrences(requests, last.seq) = {}

\* Three exchanges were streamed, more than the memory limit would retain.
C10_Witness ==
    /\ Streaming
    /\ Len(Records(file)) = 3
    /\ Seqs(Records(file)) = Seqs(streamed)
    /\ max_memory < 3
    /\ last.op = "response"
    /\ last.seq # 0

\* The number of tokens of kind t in a file.
Count(f, t) == Cardinality({i \in 1..Len(f) : f[i].t = t})

\* C11 (P4, idempotent close): a close() that directly follows a close()
\* changes nothing: the file is the same as after the first close(), the
\* closing delimiter is not written again, and nothing else of the sink moves.
C11_SecondCloseChangesNothing ==
    [][(last.op = "close" /\ last'.op = "close" /\ last'.again)
       => (/\ file' = file
           /\ file_handle' = file_handle
           /\ stream_flag' = stream_flag
           /\ requests' = requests)]_vars

\* close() was called twice in a row on a sink that streamed a record: the
\* file holds one closing delimiter.
C11_Witness ==
    /\ last.op = "close"
    /\ last.again
    /\ stream_flag
    /\ Len(Records(file)) >= 1
    /\ Count(file, "footer") = 1
    /\ file[Len(file)].t = "footer"

\* C13: set_max_memory(n), n >= 0, leaves exactly the n newest retained
\* exchanges, in their order (all of them when there are at most n).
C13_EvictsToNewest ==
    [][last'.op = "set_max_memory" => requests' = LastN(requests, max_memory')]_vars

\* C14 as stated: one sink never stores some exchanges in memory and others
\* in the file.
C14_OneStorage == appended = <<>> \/ streamed = <<>>

\* C14 as amended: every exchange added goes to exactly one storage, chosen
\* at the time of the call: the file when a stream is open (stream_to_file
\* called and not closed since), the retained list otherwise; stream_to_file
\* and close() switch the storage of the later exchanges and move nothing.
C14_StorageFollowsHandle ==
    [][/\ nStarted' = nStarted + 1 =>
            IF stream_flag /\ file_handle
            THEN /\ appended' = appended
                 /\ requests' = requests
                 /\ \/ last'.raised /\ streamed' = streamed /\ file' = file
                    \/ /\ ~last'.raised
                       /\ Len(streamed') = Len(streamed) + 1
                       /\ streamed'[Len(streamed')].seq = nStarted'
                       /\ Records(file') = Append(Records(file), streamed'[Len(streamed')])
            ELSE /\ streamed' = streamed
                 /\ file' = file
                 /\ Len(appended') = Len(appended) + 1
                 /\ appended'[Len(appended')].seq = nStarted'
       /\ nStarted' = nStarted => (appended' = appended /\ streamed' = streamed)
       /\ \A k \in 1..MaxStarted :
             Cardinality(Occurrences(requests', k))
                + Cardinality(Occurrences(Records(file'), k)) <= 1]_vars

\* One sink holds an exchange in memory and another in the file.
C14_Witness ==
    /\ requests # <<>>
    /\ Records(file) # <<>>
    /\ appended # <<>>
    /\ streamed # <<>>

\* The exchanges the sink holds: the retained list, and the records of the file.
Held(k) ==
    Cardinality(Occurrences(requests, k)) + Cardinality(Occurrences(Records(file), k))

\* C17: when the write of a streamed exchange fails, the failure reaches the
\* caller and the exchange is still held: in the pending table or in the sink.
C17_NotDroppedOnFailure ==
    (last.op = "response" /\ last.raised) =>
        (last.seq \in PendingSeqs \/ Held(last.seq) >= 1)

\* C18: after close() or export_json() has returned, no file handle opened
\* by an earlier stream_to_file is still open.
C18_HandlesReleased ==
    (last.op = "close" \/ last.op = "export_json") =>
        (~file_handle /\ unclosed = 0)

\* The number of characters a stage cuts the recorded body to.
Ceiling(stage) == IF stage = "streamed" THEN StreamBodyChars ELSE ExportBodyChars

\* C12, as stated: a response body larger than the ceiling is written as
\* present and truncated: its recorded length is the ceiling, a truncation
\* marker is set, and it is never dropped.
C12_TruncatedWithMarker ==
    (/\ capture.stage \in {"streamed", "exported"}
     /\ ~capture.raises
     /\ Decode(capture.bytes, capture.kind) > Ceiling(capture.stage))
    => (/\ capture.written = Ceiling(capture.stage)
        /\ "truncated" \in capture.keys)

\* C12, amended: a response body of 100000 bytes or more is not recorded at
\* all; a smaller one is kept whole in memory (as UTF-8 text, or as
\* hexadecimal text when it is not valid UTF-8); the record streamed to the
\* file carries its first 1000 characters and the exported one its first 5000,
\* the whole text when it is shorter, and nothing marks a cut.
C12_LargeSkippedRestCut ==
    /\ (capture.stage \notin {"none", "response"} /\ ~capture.raises)
       => IF capture.bytes >= BodyLimit
          THEN capture.body = NoBody
          ELSE capture.body = Decode(capture.bytes, capture.kind)
    /\ capture.stage \in {"streamed", "exported"}
       => /\ "truncated" \notin capture.keys
          /\ capture.written <= Ceiling(capture.stage)
          /\ capture.body = NoBody => capture.written = NoBody
          /\ capture.body > Ceiling(capture.stage)
             => capture.written = Ceiling(capture.stage)
          /\ (capture.body > 0 /\ capture.body <= Ceiling(capture.stage))
             => capture.written = capture.body

\* A body longer than the ceiling was streamed, cut; the response had
\* fewer bytes than the limit.
C12_Witness ==
    /\ capture.stage = "streamed"
    /\ capture.bytes < BodyLimit
    /\ capture.body > StreamBodyChars
    /\ capture.written = StreamBodyChars

\* No handler is running.
HandlersIdle == \A t \in Threads : handlers[t].pc = "idle"

\* C15: whatever the interleaving of the handlers of events delivered at
\* the same time, once they have returned every request that was started and
\* not completed by a response is pending, each under an identifier of its
\* own: no pending entry is lost or overwritten.
C15_NoPendingLost ==
    HandlersIdle
    => /\ \A r \in started : r.seq \notin completed => r.seq \in PendingSeqs
       /\ \A i, j \in 1..Len(pending) : pending[i].id = pending[j].id => i = j

\* C16: a read of the retained list that runs while exchanges are added
\* sees the list as it was before or after one of those additions: never
\* more than max_memory exchanges, none twice, none skipped.
C16_ConsistentSnapshot ==
    reader.pc = "done"
    => /\ reader.seen \in reader.snaps
       /\ Len(reader.seen) <= max_memory

\* The number of retained requests whose method satisfies Test.
CountMethods(Test(_)) == Cardinality({i \in 1..Len(requests) : Test(requests[i].method)})

NotGet(m) == Upper(m) # "GET"

IsPost(m) == Upper(m) = "POST"

\* C19, as stated: post_requests of the summary is the number of retained
\* requests whose method is not GET, and total_requests the number of
\* retained requests.
C19_CountsNonGet ==
    summary.computed
    => /\ summary.post_requests = CountMethods(NotGet)
       /\ summary.total_requests = Len(requests)

\* C19, amended: post_requests of the summary is the number of retained
\* requests whose method is POST, in any letter case (the requests with
\* PUT, DELETE, ... are not counted), and total_requests the number of
\* retained requests.
C19_CountsPosts ==
    summary.computed
    => /\ summary.post_requests = CountMethods(IsPost)
       /\ summary.total_requests = Len(requests)

\* A summary of a list with a GET, a PUT, a POST and a post.
C19_Witness ==
    /\ summary.computed
    /\ \A m \in Methods : \E i \in 1..Len(requests) : requests[i].method = m
    /\ summary.post_requests >= 2
    /\ summary.post_requests < CountMethods(NotGet)

\* The paths and the hosts of the retained requests.
RetainedPaths == {UrlPath(requests[i].url) : i \in 1..Len(requests)}

RetainedHosts == {UrlNetloc(requests[i].url) : i \in 1..Len(requests)}

\* C20: the sets of paths and of hosts of the summary have at most 50
\* elements each, all of them paths and hosts of retained requests.
C20_SetsCapped ==
    summary.computed
    => /\ Cardinality(summary.endpoints) <= SummaryCap
       /\ Cardinality(summary.unique_domains) <= SummaryCap
       /\ summary.endpoints \subseteq RetainedPaths
       /\ summary.unique_domains \subseteq RetainedHosts

\* A summary of more than 50 retained requests with more than 50 paths and
\* hosts: the sets are full.
C20_Witness ==
    /\ summary.computed
    /\ Cardinality(RetainedPaths) > SummaryCap
    /\ Cardinality(RetainedHosts) > SummaryCap
    /\ Cardinality(summary.endpoints) = SummaryCap
    /\ Cardinality(summary.unique_domains) = SummaryCap

\* C21 (Scenario C): sweepStale(0) removes every pending request from the
\* pending table and appends one exchange without a response for each of
\* them: after it the table is empty and the log holds a response-less
\* exchange for every request that was started and not completed.
C21_SweepEmptiesPending ==
    last.op = "sweepStale"
    => /\ pending = <<>>
       /\ \A r \in started :
             r.seq \notin completed
             => \E i \in 1..Len(requests) :
                   requests[i].seq = r.seq /\ requests[i].status = NoStatus

\* C22: a request that was aborted is not pending any more and no
\* exchange for it is ever appended to the sink, also when a response for
\* its url arrives later.
C22_AbortedLeavesNoTrace ==
    \A k \in aborted :
        /\ k \notin PendingSeqs
        /\ Occurrences(appended, k) = {}

\* The exchanges the sink holds: the retained list and the records of the file.
SinkContent == Range(requests) \cup Range(Records(file))

\* C23, as stated: each started request is appended to the sink at most
\* once, and no request identifier is at once in the pending table and in
\* the sink.
C23_NoIdInBoth ==
    /\ \A k \in 1..nStarted : Cardinality(Occurrences(appended \o streamed, k)) <= 1
    /\ \A i \in 1..Len(pending) : \A x \in SinkContent : x.id # pending[i].id

\* C23, amended: each started request is appended to the sink at most
\* once, and no request is at once in the pending table and in the sink; no
\* identifier is at once in the pending table and in the retained list or
\* in a record written since the last clear(), but the destination can hold,
\* from before a clear(), a record with the identifier of a request that is
\* pending now.
C23_NoRequestInBoth ==
    /\ \A k \in 1..nStarted : Cardinality(Occurrences(appended \o streamed, k)) <= 1
    /\ \A i \in 1..Len(pending) :
          /\ \A x \in SinkContent \cup Range(appended) \cup Range(streamed) :
                x.seq # pending[i].seq
          /\ \A x \in Range(requests) : x.id # pending[i].id
          /\ \A x \in SinkContent : x.seq \in completed => x.id # pending[i].id

\* A request is pending while the retained list and the file hold
\* exchanges of other requests.
C23_Witness ==
    /\ pending # <<>>
    /\ requests # <<>>
    /\ Records(file) # <<>>
    /\ completed # {}

\* C24: an exchange is immutable once appended: no later event changes a
\* field of an exchange that is in the sink; the events only add or remove
\* whole exchanges.
C24_ExchangesImmutable ==
    [][\A x \in SinkContent : \A y \in SinkContent' : x.seq = y.seq => x = y]_vars

\* After a later response and with a capacity set, the retained list still
\* holds an older exchange, with its status.
C24_Witness ==
    /\ last.op = "response"
    /\ last.seq # 0
    /\ max_memory <= MaxCap
    /\ \E x \in Range(requests) : x.seq < last.seq /\ x.status # NoStatus

\* C25: for every exchange appended with a response, the recorded duration
\* is the time of the response minus the time of the request's start, in
\* milliseconds, and it is not negative (the clock never goes backwards).
C25_DurationIsElapsed ==
    \A x \in Range(requests) :
        x.status # NoStatus
        => /\ x.duration = (x.received - x.timestamp) * 1000
           /\ x.duration >= 0
           /\ x.timestamp <= x.received
           /\ x.received <= now

\* An exchange whose response came a second or more after its request.
C25_Witness ==
    \E x \in Range(requests) :
        /\ x.status # NoStatus
        /\ x.received > x.timestamp
        /\ x.duration >= 1000

\* The k-th smallest element of a set of numbers.
Kth(idx, k) == CHOOSE i \in idx : Cardinality({j \in idx : j < i}) = k - 1

\* v lists, in the order of reqs, exactly the elements of reqs that pass Test.
IsSelection(v, reqs, Test(_)) ==
    LET idx == {i \in 1..Len(reqs) : Test(reqs[i])}
    IN  /\ Len(v) = Cardinality(idx)
        /\ \A k \in 1..Len(v) : v[k] = reqs[Kth(idx, k)]

\* The methods are the same up to the case of their letters.
SameMethod(a, b) == a = b \/ {a, b} = {"post", "POST"}

\* C26: get_by_url(pattern) and get_by_method(m) return exactly the
\* retained exchanges whose url contains the pattern, respectively whose
\* method is m up to letter case, in retained order, no evicted exchange
\* among them, and they leave the retained list and the pending table as
\* they were.
C26_ReadsSelectRetained ==
    [][/\ last'.op = "get_by_url"
          => /\ LET UrlHas(r) == Contains(r.url, result'.arg)
                IN  IsSelection(result'.value, requests, UrlHas)
             /\ requests' = requests
             /\ pending' = pending
       /\ last'.op = "get_by_method"
          => /\ LET MethodIs(r) == SameMethod(r.method, result'.arg)
                IN  IsSelection(result'.value, requests, MethodIs)
             /\ requests' = requests
             /\ pending' = pending]_vars

\* A read by url, after an eviction, that returned some of the retained
\* exchanges and not all, one of them for a pattern inside its url.
C26_Witness ==
    /\ last.op = "get_by_url"
    /\ Len(appended) > Len(requests)
    /\ result.value # <<>>
    /\ Len(result.value) < Len(requests)
    /\ \E i \in 1..Len(result.value) :
          SubSeq(result.value[i].url, 1, Len(result.arg)) # result.arg

\* C27: a body that cannot be captured never prevents the recording: a
\* request whose post data do not decode is pending all the same, without
\* post data; a response whose body cannot be read gives an exchange in the
\* sink all the same, with its status and headers and without a body; in
\* neither case does the handler raise.
C27_RecordedWithoutBody ==
    /\ (last.op \in {"request", "route"} /\ last.input = "undecodable")
       => /\ ~last.raised
          /\ \E i \in 1..Len(pending) :
                pending[i].seq = last.seq /\ pending[i].post_data = "none"
    /\ (last.op = "response" /\ last.seq # 0 /\ last.input = "raises")
       => /\ ~last.raised
          /\ \E i \in 1..Len(requests) :
                /\ requests[i].seq = last.seq
                /\ requests[i].status = 200
                /\ requests[i].headers
                /\ requests[i].body = NoBody

\* A response whose body could not be read arrived for a request recorded
\* without post data: the exchange is in the sink, beside one with a body.
C27_Witness ==
    /\ last.op = "response"
    /\ last.input = "raises"
    /\ \E x \in Range(requests) :
          x.seq = last.seq /\ x.post_data = "none" /\ x.body = NoBody /\ x.headers
    /\ \E x \in Range(requests) : x.body = SmallBody

\* C28: a streaming session (stream_to_file, appends, close) leaves a
\* well-bracketed destination: exactly one header, before the first record,
\* and exactly one closing delimiter, after the last record, whether the
\* file was opened with append or not and was empty or not.
C28_WellBracketed ==
    (last.op = "close" /\ ~last.again /\ stream_flag)
    => /\ Count(file, "header") = 1
       /\ Count(file, "footer") = 1
       /\ file[1].t = "header"
       /\ file[Len(file)].t = "footer"

\* C29: while the log streams (stream_to_file was called and close() was
\* not called since), an append leaves the retained list as it was, so no
\* read of the list and no summary shows an exchange appended meanwhile.
C29_StreamingLeavesMemory ==
    [][(nStarted' = nStarted + 1 /\ stream_flag /\ file_handle)
       => requests' = requests]_vars

\* An exchange was just written to the file of a log that retains older
\* exchanges in memory, and it is not among them.
C29_Witness ==
    /\ last.op = "add"
    /\ ~last.raised
    /\ stream_flag
    /\ file_handle
    /\ requests # <<>>
    /\ Occurrences(requests, last.seq) = {}
    /\ Occurrences(Records(file), last.seq) # {}

\* C30: the on_response callback is invoked exactly once for every
\* response that was correlated, when the request has left the pending table
\* and its exchange is in the sink, and never for a correlation-miss; the
\* on_request callback is invoked exactly once for every request-started
\* event, when the request is in the pending table.
C30_CallbacksOncePerEvent ==
    [][/\ (completed' # completed /\ hooks.on_response)
          => \E k \in completed' \ completed :
                calls' = Append(calls, [cb |-> "on_response", seq |-> k,
                                        pending |-> FALSE, sunk |-> TRUE])
       /\ (nStarted' = nStarted + 1 /\ hooks.on_request)
          => calls' = Append(calls, [cb |-> "on_request", seq |-> nStarted',
                                     pending |-> TRUE, sunk |-> FALSE])
       /\ (completed' = completed /\ nStarted' = nStarted) => calls' = calls]_vars

====
